---------------------------- MODULE Spec2Model ----------------------------
(***************************************************************************)
(* Domain substitution engine of utils/domain_substitution.py:            *)
(* apply_substitution (pattern table, file transformer, cache writer) and  *)
(* revert_substitution (extraction, cache verifier, revert engine), as a   *)
(* step machine over a small file system; and run_with_retry of            *)
(* retry_build.py, the retry loop around a build command.                  *)
(*                                                                         *)
(* Text is a sequence of code points and file content a sequence of bytes  *)
(* (both naturals): 97 'a', 98 'b', 99 'c', 35 '#', 40 '(', 124 '|',       *)
(* 10 newline, 233 e-acute (one byte in ISO-8859-1, 195 169 in UTF-8).     *)
(***************************************************************************)
EXTENDS Integers, Sequences, FiniteSets, TLC

(***************************************************************************)
(* Constants of the program                                                *)
(***************************************************************************)
INDEX_LIST_FILENAME == "cache_index.list"
INDEX_HASH_DELIMITER == 124
ORIG_DIR_NAME == "orig"
TIMESTAMP_DELTA == 1000000000
PATTERN_REPLACE_DELIMITER == 35

\* None, for a value that is otherwise a tuple
None == <<>>
\* no exception
NoError == "NoError"

(***************************************************************************)
(* Strings                                                                 *)
(***************************************************************************)
\* d in s
Contains(s, d) == \E k \in 1..Len(s) : s[k] = d

\* position of the first d in s, 0 when there is none
FirstIndex(s, d) ==
  IF Contains(s, d) THEN CHOOSE k \in 1..Len(s) : s[k] = d /\ \A j \in 1..(k-1) : s[j] # d
  ELSE 0

\* s.split(d, 1): one part when d is absent, else the text before and after
\* the first d
SplitOnce(s, d) ==
  LET k == FirstIndex(s, d) IN
  IF k = 0 THEN <<s>> ELSE <<SubSeq(s, 1, k-1), SubSeq(s, k+1, Len(s))>>

\* filter(len, lines)
FilterLen(lines) == SelectSeq(lines, LAMBDA l : Len(l) > 0)

RECURSIVE SplitLinesFrom(_, _)
SplitLinesFrom(s, cur) ==
  IF s = <<>> THEN (IF cur = <<>> THEN <<>> ELSE <<cur>>)
  ELSE IF Head(s) = 10 THEN <<cur>> \o SplitLinesFrom(Tail(s), <<>>)
  ELSE SplitLinesFrom(Tail(s), Append(cur, Head(s)))

\* str.splitlines() for text whose only line boundary is the newline
SplitLines(s) == SplitLinesFrom(s, <<>>)

\* s starts with p at position k
MatchAt(s, p, k) == k + Len(p) - 1 <= Len(s) /\ SubSeq(s, k, k + Len(p) - 1) = p

(***************************************************************************)
(* zlib.crc32 on 32 bits, held as <<high 16 bits, low 16 bits>>            *)
(***************************************************************************)
\* bit w (a power of two) of a ^ b
XorBit(a, b, w) == (((a \div w) + (b \div w)) % 2) * w

\* a ^ b on 16 bits
Xor16(a, b) ==
    XorBit(a, b, 1) + XorBit(a, b, 2) + XorBit(a, b, 4) + XorBit(a, b, 8)
  + XorBit(a, b, 16) + XorBit(a, b, 32) + XorBit(a, b, 64) + XorBit(a, b, 128)
  + XorBit(a, b, 256) + XorBit(a, b, 512) + XorBit(a, b, 1024) + XorBit(a, b, 2048)
  + XorBit(a, b, 4096) + XorBit(a, b, 8192) + XorBit(a, b, 16384) + XorBit(a, b, 32768)

\* crc = (crc >> 1) ^ 0xEDB88320 if crc & 1 else crc >> 1
CrcShift(c) ==
  LET hi == c[1] \div 2
      lo == (c[2] \div 2) + (c[1] % 2) * 32768
  IN  IF c[2] % 2 = 1 THEN <<Xor16(hi, 60856), Xor16(lo, 33568)>> ELSE <<hi, lo>>

\* one byte of input: crc ^= byte, then eight shifts
CrcByte(c, byte) ==
  CrcShift(CrcShift(CrcShift(CrcShift(CrcShift(CrcShift(CrcShift(CrcShift(
    <<c[1], Xor16(c[2], byte)>>))))))))

RECURSIVE CrcBytes(_, _, _)
\* (the test of n[1] makes TLC compute each byte's value before the next)
CrcBytes(c, bytes, k) ==
  IF k > Len(bytes) THEN c
  ELSE LET n == CrcByte(c, bytes[k]) IN
       IF n[1] >= 0 THEN CrcBytes(n, bytes, k + 1) ELSE n

crc32(bytes) ==
  LET c == CrcBytes(<<65535, 65535>>, bytes, 1) IN <<65535 - c[1], 65535 - c[2]>>

HexDigit(v) == IF v < 10 THEN 48 + v ELSE 87 + v

Hex4(v) == <<HexDigit(v \div 4096), HexDigit((v \div 256) % 16),
             HexDigit((v \div 16) % 16), HexDigit(v % 16)>>

\* '{:08x}'.format(crc)
Hex08(c) == Hex4(c[1]) \o Hex4(c[2])

IsDigit(ch) == ch \in 48..57
IsAlnum(ch) == IsDigit(ch) \/ ch \in 65..90 \/ ch \in 97..122
IsHex(ch) == IsDigit(ch) \/ ch \in 65..70 \/ ch \in 97..102
HexVal(ch) == IF IsDigit(ch) THEN ch - 48 ELSE IF ch \in 65..70 THEN ch - 55 ELSE ch - 87

\* crc32_regex.match(file_hash) for CRC32_REGEX_PATTERN = ^[a-zA-Z0-9]{8}$
CrcRegexMatch(h) == Len(h) = 8 /\ \A k \in 1..8 : IsAlnum(h[k])

\* int(h, 16) for eight alphanumeric characters: eight hexadecimal digits, or
\* the prefix 0x / 0X and six hexadecimal digits; None for a ValueError
IntBase16(h) ==
  LET D(k) == HexVal(h[k]) IN
  IF \A k \in 1..8 : IsHex(h[k])
  THEN <<D(1) * 4096 + D(2) * 256 + D(3) * 16 + D(4),
         D(5) * 4096 + D(6) * 256 + D(7) * 16 + D(8)>>
  ELSE IF h[1] = 48 /\ h[2] \in {88, 120} /\ \A k \in 3..8 : IsHex(h[k])
  THEN <<D(3) * 16 + D(4), D(5) * 4096 + D(6) * 256 + D(7) * 16 + D(8)>>
  ELSE None

(***************************************************************************)
(* Text encodings: bytes.decode and str.encode for UTF-8 and ISO-8859-1    *)
(***************************************************************************)
IsCont(b) == b \in 128..191

\* the length of the UTF-8 sequence that starts at byte k, 0 if there is none
Utf8Len(b, k) ==
  LET b1 == b[k]
      n  == IF b1 < 128 THEN 1
            ELSE IF b1 \in 194..223 THEN 2
            ELSE IF b1 \in 224..239 THEN 3
            ELSE IF b1 \in 240..244 THEN 4
            ELSE 0
  IN  IF /\ n > 0
         /\ k + n - 1 <= Len(b)
         /\ \A j \in 1..(n-1) : IsCont(b[k+j])
         /\ (b1 = 224 => b[k+1] >= 160)
         /\ (b1 = 237 => b[k+1] <= 159)
         /\ (b1 = 240 => b[k+1] >= 144)
         /\ (b1 = 244 => b[k+1] <= 143)
      THEN n ELSE 0

\* the code point of the UTF-8 sequence of n bytes at k
Utf8Char(b, k, n) ==
  IF n = 1 THEN b[k]
  ELSE IF n = 2 THEN (b[k] - 192) * 64 + (b[k+1] - 128)
  ELSE IF n = 3 THEN (b[k] - 224) * 4096 + (b[k+1] - 128) * 64 + (b[k+2] - 128)
  ELSE (b[k] - 240) * 262144 + (b[k+1] - 128) * 4096 + (b[k+2] - 128) * 64 + (b[k+3] - 128)

RECURSIVE Utf8ValidFrom(_, _)
Utf8ValidFrom(b, k) ==
  IF k > Len(b) THEN TRUE
  ELSE Utf8Len(b, k) > 0 /\ Utf8ValidFrom(b, k + Utf8Len(b, k))

\* bytes.decode('UTF-8') does not raise UnicodeDecodeError
Utf8Valid(b) == Utf8ValidFrom(b, 1)

RECURSIVE Utf8DecodeFrom(_, _)
Utf8DecodeFrom(b, k) ==
  IF k > Len(b) THEN <<>>
  ELSE <<Utf8Char(b, k, Utf8Len(b, k))>> \o Utf8DecodeFrom(b, k + Utf8Len(b, k))

\* bytes.decode('UTF-8') of valid bytes
Utf8Decode(b) == Utf8DecodeFrom(b, 1)

\* ISO-8859-1: every byte is the code point of the same value
Latin1Decode(b) == b

Utf8EncodeChar(cp) ==
  IF cp < 128 THEN <<cp>>
  ELSE IF cp < 2048 THEN <<192 + (cp \div 64), 128 + (cp % 64)>>
  ELSE IF cp < 65536 THEN <<224 + (cp \div 4096), 128 + ((cp \div 64) % 64), 128 + (cp % 64)>>
  ELSE <<240 + (cp \div 262144), 128 + ((cp \div 4096) % 64),
         128 + ((cp \div 64) % 64), 128 + (cp % 64)>>

RECURSIVE Utf8Encode(_)
Utf8Encode(t) == IF t = <<>> THEN <<>> ELSE Utf8EncodeChar(Head(t)) \o Utf8Encode(Tail(t))

\* _decode_file_content: TREE_ENCODINGS in order; ISO-8859-1 decodes any bytes
_decode_file_content(content_bytes) ==
  IF Utf8Valid(content_bytes) THEN Utf8Decode(content_bytes)
  ELSE Latin1Decode(content_bytes)

(***************************************************************************)
(* Pattern table (DomainRegexList).  The patterns of the model are literal *)
(* text, the empty pattern, and text with an unclosed '(' (code 40), which *)
(* re.compile rejects; replacements are literal text.                      *)
(***************************************************************************)
DomainRegexError == "DomainRegexError"

\* DomainRegexList.__init__: the non-empty lines of the rule file
RegexData(ruleLines) == FilterLen(ruleLines)

ReCompiles(pattern) == ~Contains(pattern, 40)

\* a _compile_regex that only looks for the delimiter and compiles nothing
CompileRegexDelimiterOnly(line) ==
  Len(SplitOnce(line, PATTERN_REPLACE_DELIMITER)) # 2

\* DomainRegexList._compile_regex raises DomainRegexError: the line has no
\* delimiter, or its pattern does not compile
_compile_regex_raises(line) ==
  LET parts == SplitOnce(line, PATTERN_REPLACE_DELIMITER) IN
  Len(parts) # 2 \/ ~ReCompiles(parts[1])

\* DomainRegexList._compile_regex, for a line on which it does not raise
_compile_regex(line) ==
  LET parts == SplitOnce(line, PATTERN_REPLACE_DELIMITER) IN
  [pattern |-> parts[1], replacement |-> parts[2]]

\* DomainRegexList.regex_pairs raises: some line does
regex_pairs_raises(ruleLines) ==
  \E k \in 1..Len(RegexData(ruleLines)) : _compile_regex_raises(RegexData(ruleLines)[k])

\* DomainRegexList.regex_pairs: every line compiled, in the order of the file
regex_pairs(ruleLines) ==
  LET data == RegexData(ruleLines) IN [k \in 1..Len(data) |-> _compile_regex(data[k])]

RECURSIVE SubnFrom(_, _, _, _)
\* pattern.subn(replacement, s) from position k: <<new text, count>>.  The
\* empty pattern matches before every character and at the end.
SubnFrom(s, p, r, k) ==
  IF k > Len(s) THEN (IF p = <<>> THEN <<r, 1>> ELSE <<<<>>, 0>>)
  ELSE IF p = <<>>
       THEN LET rest == SubnFrom(s, p, r, k + 1) IN
            <<r \o <<s[k]>> \o rest[1], rest[2] + 1>>
  ELSE IF MatchAt(s, p, k)
       THEN LET rest == SubnFrom(s, p, r, k + Len(p)) IN <<r \o rest[1], rest[2] + 1>>
  ELSE LET rest == SubnFrom(s, p, r, k + 1) IN <<<<s[k]>> \o rest[1], rest[2]>>

Subn(p, r, s) == SubnFrom(s, p, r, 1)

RECURSIVE ApplyFrom(_, _, _, _)
ApplyFrom(content, pairs, k, total) ==
  IF k > Len(pairs) THEN <<content, total>>
  ELSE LET res == Subn(pairs[k].pattern, pairs[k].replacement, content) IN
       ApplyFrom(res[1], pairs, k + 1, total + res[2])

\* a substitution that applies the rules from the last one to the first
ApplyRulesReversed(content, regex_iter) ==
  ApplyFrom(content, [k \in 1..Len(regex_iter) |-> regex_iter[Len(regex_iter) + 1 - k]], 1, 0)

\* a substitution that reports the number of rules it applied as its count
ApplyCountingRules(content, regex_iter) ==
  <<ApplyFrom(content, regex_iter, 1, 0)[1], Len(regex_iter)>>

\* _apply_regex_substitutions: <<substituted content, total count>>
_apply_regex_substitutions(content, regex_iter) == ApplyFrom(content, regex_iter, 1, 0)

(***************************************************************************)
(* Bounds and input domains                                                *)
(***************************************************************************)
\* operations (apply or revert calls) started in one behaviour
MaxOps == 2
\* lines of the substitution list file
MaxList == 2

\* the paths of the tree: "a", "b"
TreePaths == {<<97>>, <<98>>}

\* lines of a substitution list: "a", "b", "a|b"
ListLines == {<<97>>, <<98>>, <<97, 124, 98>>}

\* rule files: a#b / a#aa (matches its own replacement) / #c / ab (no
\* delimiter) / (#b (does not compile) / a#b, blank, b#c
RuleFiles ==
  { << <<97, 35, 98>> >>,
    << <<97, 35, 97, 97>> >>,
    << <<35, 99>> >>,
    << <<97, 98>> >>,
    << <<40, 35, 98>> >>,
    << <<97, 35, 98>>, <<>>, <<98, 35, 99>> >> }

(***************************************************************************)
(* The file system                                                         *)
(***************************************************************************)
\* a path of the tree: kind is "absent", "file", "dir" or "symlink" (bytes
\* and times are then those of the link's target); w is owner-write
File(kind, bytes, atime, mtime, w) ==
  [kind |-> kind, bytes |-> bytes, atime |-> atime, mtime |-> mtime, w |-> w]

Absent == File("absent", <<>>, <<0, 0>>, <<0, 0>>, FALSE)

\* what a path of the tree can be when a behaviour starts: absent, "a",
\* "c" (read-only), empty, "a" e-acute in ISO-8859-1, a symbolic link to a
\* file "a", a directory
InitFiles ==
  { Absent,
    File("file", <<97>>, <<20, 5>>, <<10, 7>>, TRUE),
    File("file", <<99>>, <<20, 5>>, <<10, 7>>, FALSE),
    File("file", <<>>, <<20, 5>>, <<10, 7>>, TRUE),
    File("file", <<97, 233>>, <<20, 5>>, <<10, 7>>, TRUE),
    File("symlink", <<97>>, <<20, 5>>, <<10, 7>>, TRUE),
    File("dir", <<>>, <<20, 5>>, <<10, 7>>, TRUE) }

\* bytes an outside modification writes: "x", and four bytes whose CRC-32,
\* fbcf599d, is that of "b" e-acute in UTF-8 (98 195 169)
TamperContents == { <<120>>, <<38, 18, 169, 166>> }

\* a member of the archive: TarInfo name top/rel (rel empty for the index)
Member(top, rel, data) == [top |-> top, rel |-> rel, data |-> data]

NoCache == [exists |-> FALSE, members |-> <<>>, complete |-> FALSE]

\* the extraction directory: the index file and the files under orig/
NoTmp == [exists |-> FALSE, hasIndex |-> FALSE, index |-> <<>>, orig |-> {}, time |-> 0]

VARIABLES
  treeExists,   \* source_tree.exists()
  tree,         \* the files of the tree, by relative path
  regexFile,    \* regex_path: [exists, lines]
  listFile,     \* files_path: [exists, lines]
  cache,        \* domainsub_cache on disk: [exists, members, complete]
  tmp,          \* the temporary extraction directory of revert
  now,          \* the clock: the time a write stamps on a file
  pc,           \* where the running operation stands; "idle" between calls
  ops,          \* operations started
  tampered,     \* history: the outside modification since the last operation
  useCache,     \* apply: a domainsub_cache was given
  regexPairs,   \* apply: regex_pairs
  todo,         \* apply: the lines of the list still to process
  fileindex,    \* apply: fileindex_content
  new_timestamp,\* _update_timestamp: the times to set on exit, or None
  crc32_hash,   \* apply: result of _substitute_path, or None
  orig_content, \* apply: result of _substitute_path: <<bytes>>, or None
  exc,          \* the exception in flight inside _update_timestamp, or NoError
  entries,      \* revert: the entries of the index still to validate
  all_hashes_valid, \* revert: _validate_file_index's flag
  cache_index_files, \* revert: the paths of the validated entries
  remaining,    \* revert: the paths of cache_index_files still to replace
  moving,       \* revert: the path being replaced
  orig_has_unused, \* revert
  result,       \* [op, exc] of the last finished operation
  pre,          \* history: the tree when the running/last operation started
  preCache,     \* history: the archive when the running/last operation started
  substituted,  \* history: the paths the last apply reported as substituted
  prev,         \* history: the operation before the running/last one
  max_retries,  \* run_with_retry: argument
  delay,        \* run_with_retry: argument, in seconds
  attempt,      \* run_with_retry: the loop variable
  retry_pc,     \* run_with_retry: where the call stands; "idle" when not called
  caught,       \* run_with_retry: the CalledProcessError e (its returncode), or 0
  log,          \* history: the commands run and the sleeps, in order
  run_result    \* run_with_retry: what the call returned or raised

\* the variables of run_with_retry
retryVars == <<max_retries, delay, attempt, retry_pc, caught, log, run_result>>

vars == <<treeExists, tree, regexFile, listFile, cache, tmp, now, pc, ops, tampered,
          useCache, regexPairs, todo, fileindex, new_timestamp, crc32_hash,
          orig_content, exc, entries, all_hashes_valid, cache_index_files, remaining,
          moving, orig_has_unused, result, pre, preCache, substituted, prev,
          retryVars>>

\* the variables of the files given to the program, which it never writes
inputVars == <<treeExists, regexFile, listFile>>
applyVars == <<useCache, regexPairs, todo, fileindex, crc32_hash, orig_content, substituted>>
revertVars == <<entries, all_hashes_valid, cache_index_files, remaining, moving,
                orig_has_unused>>
historyVars == <<pre, preCache, prev>>

\* what the history keeps of an operation when the next one starts
Previous ==
  [op |-> result.op, exc |-> result.exc, pre |-> pre, cached |-> useCache,
   substituted |-> substituted, tampered |-> tampered]

\* resolved_tree / relative_path
Lookup(t, p) == IF p \in DOMAIN t THEN t[p] ELSE Absent

\* path.exists()
Exists(f) == f.kind # "absent"

(***************************************************************************)
(* _update_timestamp                                                       *)
(***************************************************************************)
\* a time in nanoseconds is held as <<seconds, nanoseconds below 10^9>>;
\* AddNs(t, d) is t + d for -10^9 <= d <= 10^9
AddNs(t, d) == <<t[1] + ((t[2] + d) \div 1000000000), (t[2] + d) % 1000000000>>

\* an entry that captures the times of os.stat without the delta
UpdateTimestampEnterNoDelta(f, set_new) ==
  IF ~Exists(f) THEN None ELSE <<f.atime, f.mtime>>

\* on entry: the times to set on exit, from os.stat; None when stat fails
UpdateTimestampEnter(f, set_new) ==
  IF ~Exists(f) THEN None
  ELSE IF set_new THEN <<AddNs(f.atime, TIMESTAMP_DELTA), AddNs(f.mtime, TIMESTAMP_DELTA)>>
  ELSE <<AddNs(f.atime, -TIMESTAMP_DELTA), AddNs(f.mtime, -TIMESTAMP_DELTA)>>

\* on exit (finally): os.utime(path, ns=new_timestamp); an OSError (the path
\* is gone) is logged only
UpdateTimestampExit(f, ts) ==
  IF ts = None \/ ~Exists(f) THEN f
  ELSE [f EXCEPT !.atime = ts[1], !.mtime = ts[2]]

\* the access times a read of file f at time t can leave: the file system
\* sets st_atime to the time of the read, or (noatime, relatime) leaves it
ReadAtimes(f, t) == {f.atime, <<t, 0>>}

(***************************************************************************)
(* _substitute_path                                                        *)
(***************************************************************************)
\* the file after os.access / path.chmod
WithWritePermission(f) == [f EXCEPT !.w = TRUE]

\* open('r+b') raises OSError, wrapped in FileProcessingError
SubstituteRaises(f) == f.kind = "dir"

\* the substituted content, encoded, and the number of substitutions
Substituted(original_content, regex_iter) ==
  LET res == _apply_regex_substitutions(_decode_file_content(original_content), regex_iter)
  IN  [encoded_content |-> Utf8Encode(res[1]), total_subs |-> res[2]]

\* a transformer that rewrites every file that has content, matched or not
SubstituteWritesAnyContent(f, regex_iter) == f.bytes # <<>>

\* the file is rewritten: it has content and total_subs > 0
SubstituteWrites(f, regex_iter) ==
  /\ f.bytes # <<>>
  /\ Substituted(f.bytes, regex_iter).total_subs > 0

\* the fileindex_content line of a substituted file
IndexLine(relative_path, hash) ==
  Utf8Encode(relative_path \o <<INDEX_HASH_DELIMITER>> \o Hex08(hash) \o <<10>>)

(***************************************************************************)
(* apply_substitution                                                      *)
(***************************************************************************)
Finish(op, e) ==
  /\ pc' = "idle"
  /\ result' = [op |-> op, exc |-> e]

\* the precondition checks without the one on the cache path
ApplyPreconditionNoCacheCheck(c) ==
  IF ~treeExists \/ ~regexFile.exists \/ ~listFile.exists THEN "FileNotFoundError"
  ELSE NoError

\* lines 365-372: the exception of the first precondition that fails
ApplyPrecondition(c) ==
  IF ~treeExists \/ ~regexFile.exists \/ ~listFile.exists THEN "FileNotFoundError"
  ELSE IF c /\ cache.exists THEN "FileExistsError"
  ELSE NoError

\* a call apply_substitution(regex_path, files_path, source_tree, c and cache)
ApplyStart(c) ==
  /\ pc = "idle"
  /\ ops < MaxOps
  /\ ops' = ops + 1
  /\ prev' = Previous
  /\ pre' = tree
  /\ preCache' = cache
  /\ useCache' = c
  /\ substituted' = <<>>
  /\ IF ApplyPrecondition(c) # NoError
       THEN Finish("apply", ApplyPrecondition(c))
       ELSE pc' = "a_regex" /\ UNCHANGED result
  /\ tampered' = {}
  /\ UNCHANGED <<inputVars, retryVars, tree, cache, tmp, now, regexPairs, todo, fileindex,
                 new_timestamp, crc32_hash, orig_content, exc, revertVars>>

\* line 374: DomainRegexList(regex_path).regex_pairs
ApplyRegex ==
  /\ pc = "a_regex"
  /\ IF regex_pairs_raises(regexFile.lines)
       THEN Finish("apply", DomainRegexError) /\ UNCHANGED regexPairs
       ELSE /\ regexPairs' = regex_pairs(regexFile.lines)
            /\ pc' = "a_open"
            /\ UNCHANGED result
  /\ UNCHANGED <<inputVars, retryVars, tree, cache, tmp, now, ops, tampered, useCache, todo, fileindex,
                 new_timestamp, crc32_hash, orig_content, exc, revertVars, historyVars,
                 substituted>>

\* lines 375-378: the index buffer, tarfile.open (creates the archive file),
\* and the lines of the list
ApplyOpen ==
  /\ pc = "a_open"
  /\ fileindex' = <<>>
  /\ cache' = IF useCache THEN [exists |-> TRUE, members |-> <<>>, complete |-> FALSE]
              ELSE cache
  /\ todo' = FilterLen(listFile.lines)
  /\ pc' = "a_line"
  /\ UNCHANGED <<inputVars, retryVars, tree, tmp, now, ops, tampered, useCache, regexPairs,
                 new_timestamp, crc32_hash, orig_content, exc, revertVars, result, historyVars, substituted>>

\* a delimiter test that looks at the first character only
HasIndexDelimiterFirst(relative_path) ==
  relative_path # <<>> /\ relative_path[1] = INDEX_HASH_DELIMITER

\* line 379: INDEX_HASH_DELIMITER in relative_path
HasIndexDelimiter(relative_path) == Contains(relative_path, INDEX_HASH_DELIMITER)

\* a skip test that forgets the symbolic links
SkippedIfAbsent(path) == ~Exists(path)

\* lines 388-393: the path does not exist, or is a symbolic link
Skipped(path) == ~Exists(path) \/ path.kind = "symlink"

\* lines 378-393: the next line of the list: the delimiter check and the
\* skips; line 394 enters _update_timestamp (os.stat)
ApplyLine ==
  /\ pc = "a_line"
  /\ todo # <<>>
  /\ LET relative_path == Head(todo)
         path == Lookup(tree, relative_path)
     IN  IF HasIndexDelimiter(relative_path)
           THEN /\ cache' = IF useCache THEN NoCache ELSE cache
                /\ Finish("apply", "ValueError")
                /\ UNCHANGED <<todo, new_timestamp>>
         ELSE IF Skipped(path)
           THEN /\ todo' = Tail(todo)
                /\ UNCHANGED <<cache, pc, result, new_timestamp>>
         ELSE /\ new_timestamp' = UpdateTimestampEnter(path, TRUE)
              /\ pc' = "a_subst"
              /\ UNCHANGED <<cache, todo, result>>
  /\ UNCHANGED <<inputVars, retryVars, tree, tmp, now, ops, tampered, useCache, regexPairs, fileindex,
                 crc32_hash, orig_content, exc, revertVars, historyVars, substituted>>

\* a _substitute_path that returns the hash and the original content of a
\* file it has not rewritten yet
ApplySubstituteWithoutWrite ==
  /\ pc = "a_subst"
  /\ LET relative_path == Head(todo)
         f == WithWritePermission(tree[relative_path])
     IN  IF SubstituteRaises(f)
           THEN /\ exc' = "FileProcessingError"
                /\ tree' = [tree EXCEPT ![relative_path] = f]
                /\ UNCHANGED <<now, crc32_hash, orig_content>>
         ELSE IF SubstituteWrites(f, regexPairs)
           THEN /\ tree' = [tree EXCEPT ![relative_path] = f]
                /\ crc32_hash' = crc32(Substituted(f.bytes, regexPairs).encoded_content)
                /\ orig_content' = <<f.bytes>>
                /\ UNCHANGED <<now, exc>>
         ELSE /\ tree' = [tree EXCEPT ![relative_path] = f]
              /\ crc32_hash' = None
              /\ orig_content' = None
              /\ UNCHANGED <<now, exc>>
  /\ pc' = "a_utime"
  /\ UNCHANGED <<inputVars, retryVars, cache, tmp, ops, tampered, useCache, regexPairs, todo, fileindex,
                 new_timestamp, revertVars, result, historyVars, substituted>>

\* line 395: _substitute_path(path, regex_pairs)
ApplySubstitute ==
  /\ pc = "a_subst"
  /\ LET relative_path == Head(todo)
         f == WithWritePermission(tree[relative_path])
     IN  IF SubstituteRaises(f)
           THEN /\ exc' = "FileProcessingError"
                /\ tree' = [tree EXCEPT ![relative_path] = f]
                /\ UNCHANGED <<now, crc32_hash, orig_content>>
         ELSE \E read_atime \in ReadAtimes(f, now) :
           IF SubstituteWrites(f, regexPairs)
             THEN LET encoded_content == Substituted(f.bytes, regexPairs).encoded_content IN
                  /\ tree' = [tree EXCEPT ![relative_path] =
                                [f EXCEPT !.bytes = encoded_content, !.atime = read_atime,
                                          !.mtime = <<now, 0>>]]
                  /\ now' = now + 1
                  /\ crc32_hash' = crc32(encoded_content)
                  /\ orig_content' = <<f.bytes>>
                  /\ UNCHANGED exc
             ELSE /\ tree' = [tree EXCEPT ![relative_path] = [f EXCEPT !.atime = read_atime]]
                  /\ crc32_hash' = None
                  /\ orig_content' = None
                  /\ UNCHANGED <<now, exc>>
  /\ pc' = "a_utime"
  /\ UNCHANGED <<inputVars, retryVars, cache, tmp, ops, tampered, useCache, regexPairs, todo, fileindex,
                 new_timestamp, revertVars, result, historyVars, substituted>>

\* an exit of the with statement that sets the times only when the body
\* raised nothing
ApplyUtimeSkippedOnError ==
  /\ pc = "a_utime"
  /\ LET relative_path == Head(todo) IN
     IF exc # NoError
       THEN /\ Finish("apply", exc)
            /\ exc' = NoError
            /\ UNCHANGED <<tree, todo, substituted>>
     ELSE /\ tree' = [tree EXCEPT ![relative_path] = UpdateTimestampExit(@, new_timestamp)]
          /\ IF crc32_hash = None
               THEN /\ todo' = Tail(todo)
                    /\ pc' = "a_line"
                    /\ UNCHANGED <<exc, result, substituted>>
               ELSE /\ substituted' = Append(substituted, relative_path)
                    /\ pc' = "a_entry"
                    /\ UNCHANGED <<exc, result, todo>>
  /\ UNCHANGED <<inputVars, retryVars, cache, tmp, now, ops, tampered, useCache, regexPairs, fileindex,
                 new_timestamp, crc32_hash, orig_content, revertVars, historyVars>>

\* lines 339-343 and 396-398: _update_timestamp's finally, then the
\* exception leaves apply (the with statement closes the archive file as it
\* is), or the file had no substitution, or it is reported as substituted
ApplyUtime ==
  /\ pc = "a_utime"
  /\ LET relative_path == Head(todo) IN
     /\ tree' = [tree EXCEPT ![relative_path] = UpdateTimestampExit(@, new_timestamp)]
     /\ IF exc # NoError
          THEN /\ Finish("apply", exc)
               /\ exc' = NoError
               /\ UNCHANGED <<todo, substituted>>
        ELSE IF crc32_hash = None
          THEN /\ todo' = Tail(todo)
               /\ pc' = "a_line"
               /\ UNCHANGED <<exc, result, substituted>>
        ELSE /\ substituted' = Append(substituted, relative_path)
             /\ pc' = "a_entry"
             /\ UNCHANGED <<exc, result, todo>>
  /\ UNCHANGED <<inputVars, retryVars, cache, tmp, now, ops, tampered, useCache, regexPairs, fileindex,
                 new_timestamp, crc32_hash, orig_content, revertVars, historyVars>>

\* lines 399-405: the index line and the original-content member
ApplyEntry ==
  /\ pc = "a_entry"
  /\ LET relative_path == Head(todo) IN
     IF useCache
       THEN /\ fileindex' = fileindex \o IndexLine(relative_path, crc32_hash)
            /\ cache' = [cache EXCEPT !.members =
                           Append(@, Member(ORIG_DIR_NAME, relative_path, orig_content[1]))]
       ELSE UNCHANGED <<fileindex, cache>>
  /\ todo' = Tail(todo)
  /\ pc' = "a_line"
  /\ UNCHANGED <<inputVars, retryVars, tree, tmp, now, ops, tampered, useCache, regexPairs,
                 new_timestamp, crc32_hash, orig_content, exc, revertVars, result, historyVars, substituted>>

\* lines 406-410: the index member, and the archive is closed
ApplyFinal ==
  /\ pc = "a_line"
  /\ todo = <<>>
  /\ cache' = IF useCache
              THEN [cache EXCEPT !.members = Append(@, Member(INDEX_LIST_FILENAME, <<>>, fileindex)),
                                 !.complete = TRUE]
              ELSE cache
  /\ Finish("apply", NoError)
  /\ UNCHANGED <<inputVars, retryVars, tree, tmp, now, ops, tampered, useCache, regexPairs, todo,
                 fileindex, new_timestamp, crc32_hash, orig_content, exc, revertVars, historyVars, substituted>>

Apply ==
  \/ \E c \in BOOLEAN : ApplyStart(c)
  \/ ApplyRegex
  \/ ApplyOpen
  \/ ApplyLine
  \/ ApplySubstitute
  \/ ApplyUtime
  \/ ApplyEntry
  \/ ApplyFinal

(***************************************************************************)
(* The archive extraction service (extract_tar_file)                       *)
(***************************************************************************)
\* the data of the last member named top/rel (a later member of the same
\* name overwrites the file an earlier one made)
LastMember(members, top, rel) ==
  LET ks == {k \in 1..Len(members) : members[k].top = top /\ members[k].rel = rel}
  IN  members[CHOOSE k \in ks : \A j \in ks : j <= k].data

\* the extraction directory after extract(archive, directory) at time t
Extracted(members, t) ==
  [exists |-> TRUE,
   hasIndex |-> \E k \in 1..Len(members) : members[k].top = INDEX_LIST_FILENAME,
   index |-> IF \E k \in 1..Len(members) : members[k].top = INDEX_LIST_FILENAME
             THEN LastMember(members, INDEX_LIST_FILENAME, <<>>) ELSE <<>>,
   orig |-> {[rel |-> members[k].rel, data |-> LastMember(members, ORIG_DIR_NAME, members[k].rel)] :
               k \in {j \in 1..Len(members) : members[j].top = ORIG_DIR_NAME}},
   time |-> t]

(***************************************************************************)
(* Cache verifier                                                          *)
(***************************************************************************)
\* a verifier without the running set of paths
ValidateEntryNoDuplicateCheck(entry, resolved_tree, index_files) ==
  LET parts == SplitOnce(entry, INDEX_HASH_DELIMITER) IN
  /\ Len(parts) = 2
  /\ LET relative_path == parts[1]
         file_hash == parts[2]
         file_path == Lookup(resolved_tree, relative_path)
     IN  /\ relative_path # <<>> /\ file_hash # <<>>
         /\ CrcRegexMatch(file_hash)
         /\ Exists(file_path)
         /\ file_path.kind # "dir"
         /\ IntBase16(file_hash) # None
         /\ crc32(file_path.bytes) = IntBase16(file_hash)

\* a verifier that does not compare the hash with the file's CRC-32
ValidateEntryNoHash(entry, resolved_tree, index_files) ==
  LET parts == SplitOnce(entry, INDEX_HASH_DELIMITER) IN
  /\ Len(parts) = 2
  /\ LET relative_path == parts[1]
         file_hash == parts[2]
         file_path == Lookup(resolved_tree, relative_path)
     IN  /\ relative_path # <<>> /\ file_hash # <<>>
         /\ CrcRegexMatch(file_hash)
         /\ Exists(file_path)
         /\ file_path.kind # "dir"
         /\ IntBase16(file_hash) # None
         /\ relative_path \notin index_files

\* _validate_index_entry returns True
_validate_index_entry(entry, resolved_tree, index_files) ==
  LET parts == SplitOnce(entry, INDEX_HASH_DELIMITER) IN
  /\ Len(parts) = 2
  /\ LET relative_path == parts[1]
         file_hash == parts[2]
         file_path == Lookup(resolved_tree, relative_path)
     IN  /\ relative_path # <<>> /\ file_hash # <<>>
         /\ CrcRegexMatch(file_hash)
         /\ Exists(file_path)
         /\ file_path.kind # "dir"
         /\ IntBase16(file_hash) # None
         /\ crc32(file_path.bytes) = IntBase16(file_hash)
         /\ relative_path \notin index_files

\* lines 271-291: the entry gets as far as file_path.read_bytes(), on a file
EntryReadsFile(entry, resolved_tree) ==
  LET parts == SplitOnce(entry, INDEX_HASH_DELIMITER) IN
  /\ Len(parts) = 2
  /\ parts[1] # <<>> /\ parts[2] # <<>>
  /\ CrcRegexMatch(parts[2])
  /\ Lookup(resolved_tree, parts[1]).kind = "file"

\* the path _validate_index_entry adds to cache_index_files
EntryPath(entry) == SplitOnce(entry, INDEX_HASH_DELIMITER)[1]

(***************************************************************************)
(* revert_substitution                                                     *)
(***************************************************************************)
\* an exception that leaves the extraction directory behind
RevertRaiseLeavingDirectory(e) ==
  /\ UNCHANGED tmp
  /\ Finish("revert", e)

\* an exception leaves the with statement: the directory is removed
RevertRaise(e) ==
  /\ tmp' = NoTmp
  /\ Finish("revert", e)

\* lines 440-451: the preconditions, and the temporary directory
RevertStart ==
  /\ pc = "idle"
  /\ ops < MaxOps
  /\ ops' = ops + 1
  /\ prev' = Previous
  /\ pre' = tree
  /\ preCache' = cache
  /\ cache_index_files' = {}
  /\ IF ~cache.exists \/ ~treeExists
       THEN Finish("revert", "FileNotFoundError") /\ UNCHANGED tmp
       ELSE /\ tmp' = [NoTmp EXCEPT !.exists = TRUE]
            /\ pc' = "r_extract"
            /\ UNCHANGED result
  /\ tampered' = {}
  /\ UNCHANGED <<inputVars, retryVars, tree, cache, now, applyVars, new_timestamp, exc,
                 entries, all_hashes_valid, remaining, moving, orig_has_unused>>

\* line 454: extract_tar_file; of an archive that was never closed, the
\* service extracts the members there are or fails
RevertExtract ==
  /\ pc = "r_extract"
  /\ \/ /\ tmp' = Extracted(cache.members, now)
        /\ now' = now + 1
        /\ pc' = "r_index"
        /\ UNCHANGED result
     \/ /\ ~cache.complete
        /\ RevertRaise("ExtractionError")
        /\ UNCHANGED now
  /\ UNCHANGED <<inputVars, retryVars, tree, cache, ops, tampered, applyVars, new_timestamp, exc,
                 revertVars, historyVars>>

\* lines 458 and 242-249: the index file is opened, read and decoded
RevertIndex ==
  /\ pc = "r_index"
  /\ IF ~tmp.hasIndex
       THEN RevertRaise("FileNotFoundError") /\ UNCHANGED <<entries, all_hashes_valid>>
     ELSE IF ~Utf8Valid(tmp.index)
       THEN RevertRaise("KeyError") /\ UNCHANGED <<entries, all_hashes_valid>>
     ELSE /\ entries' = SplitLines(Utf8Decode(tmp.index))
          /\ all_hashes_valid' = TRUE
          /\ pc' = "r_verify"
          /\ UNCHANGED <<tmp, result>>
  /\ UNCHANGED <<inputVars, retryVars, tree, cache, now, ops, tampered, applyVars, new_timestamp, exc,
                 cache_index_files, remaining, moving, orig_has_unused, historyVars>>

\* a scan that stops at the first entry the verifier rejects
RevertVerifyStopsAtFirst ==
  /\ pc = "r_verify"
  /\ entries # <<>>
  /\ IF _validate_index_entry(Head(entries), tree, cache_index_files)
       THEN /\ cache_index_files' = cache_index_files \cup {EntryPath(Head(entries))}
            /\ entries' = Tail(entries)
            /\ UNCHANGED all_hashes_valid
       ELSE /\ all_hashes_valid' = FALSE
            /\ entries' = <<>>
            /\ UNCHANGED cache_index_files
  /\ UNCHANGED <<inputVars, retryVars, tree, cache, tmp, now, pc, ops, tampered, applyVars,
                 new_timestamp, exc, remaining, moving, orig_has_unused, result, historyVars>>

\* lines 251-253: one entry of the index
RevertVerify ==
  /\ pc = "r_verify"
  /\ entries # <<>>
  /\ IF _validate_index_entry(Head(entries), tree, cache_index_files)
       THEN /\ cache_index_files' = cache_index_files \cup {EntryPath(Head(entries))}
            /\ UNCHANGED all_hashes_valid
       ELSE /\ all_hashes_valid' = FALSE
            /\ UNCHANGED cache_index_files
  /\ IF EntryReadsFile(Head(entries), tree)
       THEN \E read_atime \in ReadAtimes(tree[EntryPath(Head(entries))], now) :
              tree' = [tree EXCEPT ![EntryPath(Head(entries))].atime = read_atime]
       ELSE UNCHANGED tree
  /\ entries' = Tail(entries)
  /\ UNCHANGED <<inputVars, retryVars, cache, tmp, now, pc, ops, tampered, applyVars,
                 new_timestamp, exc, remaining, moving, orig_has_unused, result, historyVars>>

\* a verdict that removes the archive it has found invalid
RevertVerdictUnlinking ==
  /\ pc = "r_verify"
  /\ entries = <<>>
  /\ IF ~all_hashes_valid
       THEN RevertRaise("KeyError") /\ cache' = NoCache /\ UNCHANGED remaining
       ELSE /\ remaining' = cache_index_files
            /\ pc' = "r_replace"
            /\ UNCHANGED <<cache, tmp, result>>
  /\ UNCHANGED <<inputVars, retryVars, tree, now, ops, tampered, applyVars, new_timestamp, exc,
                 entries, all_hashes_valid, cache_index_files, moving, orig_has_unused, historyVars>>

\* a verdict that goes on to replace every path that has an original in the
\* extraction directory, in the index or not
RevertVerdictAllOriginals ==
  /\ pc = "r_verify"
  /\ entries = <<>>
  /\ IF ~all_hashes_valid
       THEN RevertRaise("KeyError") /\ UNCHANGED remaining
       ELSE /\ remaining' = {o.rel : o \in tmp.orig}
            /\ pc' = "r_replace"
            /\ UNCHANGED <<tmp, result>>
  /\ UNCHANGED <<inputVars, retryVars, tree, cache, now, ops, tampered, applyVars, new_timestamp, exc,
                 entries, all_hashes_valid, cache_index_files, moving, orig_has_unused, historyVars>>

\* a verdict that goes on to replace the valid entries whatever the flag says
RevertVerdictIgnoringFlag ==
  /\ pc = "r_verify"
  /\ entries = <<>>
  /\ remaining' = cache_index_files
  /\ pc' = "r_replace"
  /\ UNCHANGED <<inputVars, retryVars, tree, cache, tmp, now, ops, tampered, applyVars, new_timestamp,
                 exc, entries, all_hashes_valid, cache_index_files, moving, orig_has_unused,
                 result, historyVars>>

\* lines 255 and 459-461: the verdict
RevertVerdict ==
  /\ pc = "r_verify"
  /\ entries = <<>>
  /\ IF ~all_hashes_valid
       THEN RevertRaise("KeyError") /\ UNCHANGED remaining
       ELSE /\ remaining' = cache_index_files
            /\ pc' = "r_replace"
            /\ UNCHANGED <<tmp, result>>
  /\ UNCHANGED <<inputVars, retryVars, tree, cache, now, ops, tampered, applyVars, new_timestamp, exc,
                 entries, all_hashes_valid, cache_index_files, moving, orig_has_unused, historyVars>>

\* lines 465-466: the next path of the set (in any order), and
\* _update_timestamp's os.stat
RevertReplace ==
  /\ pc = "r_replace"
  /\ \E relative_path \in remaining :
       /\ moving' = relative_path
       /\ remaining' = remaining \ {relative_path}
       /\ new_timestamp' = UpdateTimestampEnter(Lookup(tree, relative_path), FALSE)
  /\ pc' = "r_move"
  /\ UNCHANGED <<inputVars, retryVars, tree, cache, tmp, now, ops, tampered, applyVars, exc, entries,
                 all_hashes_valid, cache_index_files, orig_has_unused, result, historyVars>>

\* the tree file after (extract_path / ORIG_DIR_NAME / relative_path).replace(it)
Replaced(orig_file, time) == File("file", orig_file.data, <<time, 0>>, <<0, 0>>, TRUE)

\* a replacement that removes the tree file first and leaves the copy of the
\* original to a later step
RevertMoveUnlinkFirst ==
  /\ pc = "r_move"
  /\ IF \E o \in tmp.orig : o.rel = moving
       THEN /\ tree' = [tree EXCEPT ![moving] = Absent]
            /\ UNCHANGED <<tmp, exc>>
       ELSE /\ exc' = "FileNotFoundError"
            /\ UNCHANGED <<tree, tmp>>
  /\ pc' = "r_utime"
  /\ UNCHANGED <<inputVars, retryVars, cache, now, ops, tampered, applyVars, new_timestamp, revertVars,
                 result, historyVars>>

\* line 467: the rename of the extracted original over the tree file
RevertMove ==
  /\ pc = "r_move"
  /\ IF \E o \in tmp.orig : o.rel = moving
       THEN LET o == CHOOSE o \in tmp.orig : o.rel = moving IN
            /\ tree' = [tree EXCEPT ![moving] = Replaced(o, tmp.time)]
            /\ tmp' = [tmp EXCEPT !.orig = @ \ {o}]
            /\ UNCHANGED exc
       ELSE /\ exc' = "FileNotFoundError"
            /\ UNCHANGED <<tree, tmp>>
  /\ pc' = "r_utime"
  /\ UNCHANGED <<inputVars, retryVars, cache, now, ops, tampered, applyVars, new_timestamp, revertVars,
                 result, historyVars>>

\* lines 339-343: _update_timestamp's finally; an exception then leaves revert
RevertUtime ==
  /\ pc = "r_utime"
  /\ tree' = [tree EXCEPT ![moving] = UpdateTimestampExit(@, new_timestamp)]
  /\ IF exc # NoError
       THEN RevertRaise(exc) /\ exc' = NoError
       ELSE pc' = "r_replace" /\ UNCHANGED <<tmp, exc, result>>
  /\ UNCHANGED <<inputVars, retryVars, cache, now, ops, tampered, applyVars, new_timestamp, revertVars,
                 historyVars>>

\* a scan that never finds a file under orig/
HasUnusedNever(extract_path) == extract_path.orig # extract_path.orig

\* lines 470-474: a file is left under orig/
HasUnused(extract_path) == extract_path.orig # {}

\* lines 470-474: the files left under orig/; the with statement ends and
\* the directory is removed
RevertScan ==
  /\ pc = "r_replace"
  /\ remaining = {}
  /\ orig_has_unused' = HasUnused(tmp)
  /\ tmp' = NoTmp
  /\ pc' = "r_unlink"
  /\ UNCHANGED <<inputVars, retryVars, tree, cache, now, ops, tampered, applyVars, new_timestamp, exc,
                 entries, all_hashes_valid, cache_index_files, remaining, moving, result,
                 historyVars>>

\* lines 476-479
RevertUnlink ==
  /\ pc = "r_unlink"
  /\ cache' = IF orig_has_unused THEN cache ELSE NoCache
  /\ Finish("revert", NoError)
  /\ UNCHANGED <<inputVars, retryVars, tree, tmp, now, ops, tampered, applyVars, new_timestamp, exc,
                 revertVars, historyVars>>

Revert ==
  \/ RevertStart
  \/ RevertExtract
  \/ RevertIndex
  \/ RevertVerify
  \/ RevertVerdict
  \/ RevertReplace
  \/ RevertMove
  \/ RevertUtime
  \/ RevertScan
  \/ RevertUnlink

(***************************************************************************)
(* Outside modifications of the tree between two operations                *)
(***************************************************************************)
\* one modification, of a tree on which apply has just written its archive
TamperEnabled ==
  /\ tampered = {}
  /\ ops < MaxOps
  /\ result = [op |-> "apply", exc |-> NoError]
  /\ useCache

TamperWrite(p, bytes) ==
  /\ pc = "idle"
  /\ TamperEnabled
  /\ tree[p].kind = "file"
  /\ tree[p].bytes # bytes
  /\ tampered' = {[path |-> p, was |-> tree[p]]}
  /\ tree' = [tree EXCEPT ![p] = [@ EXCEPT !.bytes = bytes, !.mtime = <<now, 0>>]]
  /\ now' = now + 1
  /\ UNCHANGED <<inputVars, retryVars, cache, tmp, pc, ops, applyVars, new_timestamp, exc, revertVars,
                 result, historyVars>>

TamperRemove(p) ==
  /\ pc = "idle"
  /\ TamperEnabled
  /\ tree[p].kind = "file"
  /\ tampered' = {[path |-> p, was |-> tree[p]]}
  /\ tree' = [tree EXCEPT ![p] = Absent]
  /\ UNCHANGED <<inputVars, retryVars, cache, tmp, now, pc, ops, applyVars, new_timestamp, exc,
                 revertVars, result, historyVars>>

Tamper ==
  \/ \E p \in TreePaths, bytes \in TamperContents : TamperWrite(p, bytes)
  \/ \E p \in TreePaths : TamperRemove(p)

(***************************************************************************)
(* run_with_retry of retry_build.py                                        *)
(***************************************************************************)
\* the largest max_retries of a call
MaxRetries == 3
\* the delays of a call, in seconds: none, and the two the script uses
Delays == {0, 5, 30}
\* the exit statuses of the command; subprocess.run(check=True) returns on
\* 0 and raises CalledProcessError on the others
ReturnCodes == {0, 1, 2}

\* an entry of the log: the command was run and exited with arg, or
\* time.sleep(arg) was called
Event(ev, arg) == [ev |-> ev, arg |-> arg]

\* what a call has returned or raised: "none" while it runs, the
\* CompletedProcess ("return"), None ("return_none"), or the
\* CalledProcessError ("raise"), with the return code
Outcome(kind, returncode) == [kind |-> kind, returncode |-> returncode]

\* the variables of run_with_retry where it is not called
RetryIdle ==
  /\ max_retries = 0
  /\ delay = 0
  /\ attempt = 0
  /\ retry_pc = "idle"
  /\ caught = 0
  /\ log = <<>>
  /\ run_result = Outcome("none", 0)

(***************************************************************************)
(* Specification: apply and revert calls on a tree, a rule file and a list *)
(***************************************************************************)
\* the lists of at most n lines
Lists(n) == UNION {[1..k -> ListLines] : k \in 0..n}

InitLocals ==
  /\ tmp = NoTmp
  /\ now = 100
  /\ pc = "idle"
  /\ tampered = {}
  /\ useCache = FALSE
  /\ regexPairs = <<>>
  /\ todo = <<>>
  /\ fileindex = <<>>
  /\ new_timestamp = None
  /\ crc32_hash = None
  /\ orig_content = None
  /\ exc = NoError
  /\ entries = <<>>
  /\ all_hashes_valid = TRUE
  /\ cache_index_files = {}
  /\ remaining = {}
  /\ moving = <<>>
  /\ orig_has_unused = FALSE
  /\ result = [op |-> "none", exc |-> NoError]
  /\ pre = tree
  /\ preCache = cache
  /\ substituted = <<>>
  /\ prev = [op |-> "none", exc |-> NoError, pre |-> tree, cached |-> FALSE,
             substituted |-> <<>>, tampered |-> {}]

Init ==
  /\ treeExists \in BOOLEAN
  /\ tree \in [TreePaths -> InitFiles]
  /\ treeExists = FALSE => \A p \in TreePaths : tree[p] = Absent
  /\ regexFile \in [exists : {TRUE}, lines : RuleFiles] \cup {[exists |-> FALSE, lines |-> <<>>]}
  /\ listFile \in [exists : {TRUE}, lines : Lists(MaxList)] \cup {[exists |-> FALSE, lines |-> <<>>]}
  /\ cache = NoCache
  /\ ops = 0
  /\ InitLocals
  /\ RetryIdle

Next == Apply \/ Revert \/ Tamper

Spec == Init /\ [][Next]_vars

(***************************************************************************)
(* Specification: one revert call on a tree and an archive of any content  *)
(***************************************************************************)
\* lines of the content index of such an archive
MaxIndex == 2

\* what a path of the tree can be: absent, "b", "ae" (CRC-32 00e7ddce), a
\* directory
RevertFiles ==
  { Absent,
    File("file", <<98>>, <<21, 5>>, <<11, 7>>, TRUE),
    File("file", <<97, 101>>, <<21, 5>>, <<11, 7>>, TRUE),
    File("dir", <<>>, <<21, 5>>, <<11, 7>>, TRUE) }

\* index lines: a|71beeff9 (the CRC-32 of "b"), b|71beeff9, a|00e7ddce,
\* a|0xe7ddce, a|00E7DDCE, a|e7ddce, a|zzzzzzzz, a|71beeff, a| , |71beeff9, a
IndexLines ==
  { <<97, 124>> \o Hex08(crc32(<<98>>)),
    <<98, 124>> \o Hex08(crc32(<<98>>)),
    <<97, 124>> \o Hex08(crc32(<<97, 101>>)),
    <<97, 124, 48, 120, 101, 55, 100, 100, 99, 101>>,
    <<97, 124, 48, 48, 69, 55, 68, 68, 67, 69>>,
    <<97, 124, 101, 55, 100, 100, 99, 101>>,
    <<97, 124, 122, 122, 122, 122, 122, 122, 122, 122>>,
    <<97, 124, 55, 49, 98, 101, 101, 102, 102>>,
    <<97, 124>>,
    <<124>> \o Hex08(crc32(<<98>>)),
    <<97>> }

RECURSIVE JoinLines(_)
\* the text of a file with the given lines
JoinLines(lines) ==
  IF lines = <<>> THEN <<>> ELSE Head(lines) \o <<10>> \o JoinLines(Tail(lines))

\* the members of an archive: the original "a" of each path of origs, then
\* (if it has one) the index
ArchiveMembers(origs, hasIndex, lines) ==
  LET a == IF <<97>> \in origs THEN <<Member(ORIG_DIR_NAME, <<97>>, <<97>>)>> ELSE <<>>
      b == IF <<98>> \in origs THEN <<Member(ORIG_DIR_NAME, <<98>>, <<97>>)>> ELSE <<>>
      i == IF hasIndex THEN <<Member(INDEX_LIST_FILENAME, <<>>, Utf8Encode(JoinLines(lines)))>>
           ELSE <<>>
  IN  a \o b \o i

\* archives that were closed, with an index, and archives that were not,
\* without one
Archives ==
  { [exists |-> TRUE, members |-> ArchiveMembers(origs, TRUE, lines), complete |-> TRUE] :
      origs \in SUBSET TreePaths, lines \in UNION {[1..k -> IndexLines] : k \in 0..MaxIndex} }
  \cup
  { [exists |-> TRUE, members |-> ArchiveMembers(origs, FALSE, <<>>), complete |-> FALSE] :
      origs \in SUBSET TreePaths }

InitRevert ==
  /\ treeExists = TRUE
  /\ tree \in [TreePaths -> RevertFiles]
  /\ regexFile = [exists |-> FALSE, lines |-> <<>>]
  /\ listFile = [exists |-> FALSE, lines |-> <<>>]
  /\ cache \in Archives
  /\ ops = MaxOps - 1
  /\ InitLocals
  /\ RetryIdle

SpecRevert == InitRevert /\ [][Revert]_vars

\* an archive of any content, and a tree path that does not exist
InitNoTree ==
  /\ treeExists = FALSE
  /\ tree = [p \in TreePaths |-> Absent]
  /\ regexFile = [exists |-> FALSE, lines |-> <<>>]
  /\ listFile = [exists |-> FALSE, lines |-> <<>>]
  /\ cache \in Archives
  /\ ops = MaxOps - 1
  /\ InitLocals
  /\ RetryIdle

\* both operations, from every state above: apply and revert calls on a
\* tree without an archive, and one call on a tree (or on no tree) beside an
\* archive of any content
SpecBoth == (Init \/ InitRevert \/ InitNoTree) /\ [][Next]_vars

(***************************************************************************)
(* run_with_retry: the steps of a call                                     *)
(***************************************************************************)
\* a handler that sleeps after every failure, the last one included
RetryExceptSleepAlways ==
  /\ retry_pc = "except"
  /\ log' = Append(log, Event("sleep", delay))
  /\ attempt' = attempt + 1
  /\ retry_pc' = "for"
  /\ UNCHANGED <<max_retries, delay, caught, run_result>>
  /\ UNCHANGED <<treeExists, tree, regexFile, listFile, cache, tmp, now, pc, ops, tampered,
                 applyVars, new_timestamp, exc, revertVars, result, historyVars>>

\* lines 15-21: the next attempt of the for loop; subprocess.run returns
\* (the command exited with 0) and the call returns its result, or raises
\* CalledProcessError, which the handler catches
RetryRun ==
  /\ retry_pc = "for"
  /\ attempt < max_retries
  /\ \E returncode \in ReturnCodes :
       /\ log' = Append(log, Event("run", returncode))
       /\ IF returncode = 0
            THEN /\ run_result' = Outcome("return", 0)
                 /\ retry_pc' = "done"
                 /\ UNCHANGED caught
            ELSE /\ caught' = returncode
                 /\ retry_pc' = "except"
                 /\ UNCHANGED run_result
  /\ UNCHANGED <<max_retries, delay, attempt>>
  /\ UNCHANGED <<treeExists, tree, regexFile, listFile, cache, tmp, now, pc, ops, tampered,
                 applyVars, new_timestamp, exc, revertVars, result, historyVars>>

\* lines 21-28: the handler sleeps and the loop goes on with the next
\* attempt, or (last attempt) raises e
RetryExcept ==
  /\ retry_pc = "except"
  /\ IF attempt < max_retries - 1
       THEN /\ log' = Append(log, Event("sleep", delay))
            /\ attempt' = attempt + 1
            /\ retry_pc' = "for"
            /\ UNCHANGED run_result
       ELSE /\ run_result' = Outcome("raise", caught)
            /\ retry_pc' = "done"
            /\ UNCHANGED <<log, attempt>>
  /\ UNCHANGED <<max_retries, delay, caught>>
  /\ UNCHANGED <<treeExists, tree, regexFile, listFile, cache, tmp, now, pc, ops, tampered,
                 applyVars, new_timestamp, exc, revertVars, result, historyVars>>

\* line 15: range(max_retries) is exhausted, the function ends and returns
\* None
RetryExhausted ==
  /\ retry_pc = "for"
  /\ attempt >= max_retries
  /\ run_result' = Outcome("return_none", 0)
  /\ retry_pc' = "done"
  /\ UNCHANGED <<max_retries, delay, attempt, caught, log>>
  /\ UNCHANGED <<treeExists, tree, regexFile, listFile, cache, tmp, now, pc, ops, tampered,
                 applyVars, new_timestamp, exc, revertVars, result, historyVars>>

run_with_retry ==
  \/ RetryRun
  \/ RetryExcept
  \/ RetryExhausted

\* a call run_with_retry(cmd, max_retries, delay), on a machine where the
\* substitution engine does nothing
InitRetry ==
  /\ max_retries \in 0..MaxRetries
  /\ delay \in Delays
  /\ attempt = 0
  /\ retry_pc = "for"
  /\ caught = 0
  /\ log = <<>>
  /\ run_result = Outcome("none", 0)
  /\ treeExists = FALSE
  /\ tree = [p \in TreePaths |-> Absent]
  /\ regexFile = [exists |-> FALSE, lines |-> <<>>]
  /\ listFile = [exists |-> FALSE, lines |-> <<>>]
  /\ cache = NoCache
  /\ ops = 0
  /\ InitLocals

\* the call is one thread of control and every command run comes to an end
\* (subprocess.run has no timeout: a command that hangs is outside the
\* model), so a step that is possible is taken
SpecRetry == InitRetry /\ [][run_with_retry]_vars /\ WF_vars(run_with_retry)

(***************************************************************************)
(* Properties                                                              *)
(***************************************************************************)
Range(seq) == {seq[k] : k \in DOMAIN seq}

\* the operation op has returned (or raised)
Done(op) == pc = "idle" /\ result.op = op

\* the operation before the last one was an apply that wrote its archive
AfterCachedApply == prev.op = "apply" /\ prev.exc = NoError /\ prev.cached

\* the preconditions of the running/last apply held when it was called
PreconditionsHeld ==
  treeExists /\ regexFile.exists /\ listFile.exists /\ ~(useCache /\ preCache.exists)

\* the lines of the content index of archive c, and the paths they name
IndexEntries(c) ==
  SplitLines(Utf8Decode(LastMember(c.members, INDEX_LIST_FILENAME, <<>>)))
IndexPaths(c) == {EntryPath(IndexEntries(c)[k]) : k \in 1..Len(IndexEntries(c))}

\* the original-content members of archive c
OrigMembers(c) == {k \in 1..Len(c.members) : c.members[k].top = ORIG_DIR_NAME}

\* a path of the list contains '|'
ListHasDelimiter ==
  \E k \in 1..Len(listFile.lines) : \E j \in 1..Len(listFile.lines[k]) :
    listFile.lines[k][j] = 124

\* C1, as claimed: after an apply that wrote its archive and a revert of the
\* tree as apply left it, every file apply substituted has the bytes it had
\* before apply.
C1_RoundTripBytes ==
  (Done("revert") /\ AfterCachedApply /\ prev.tampered = {})
    => \A p \in Range(prev.substituted) : tree[p].bytes = prev.pre[p].bytes

\* the substituted files an outside modification changed after apply
Changed == {t \in prev.tampered : t.path \in Range(prev.substituted)}

\* C2, as claimed: when the bytes of a substituted file were changed, or the
\* file removed, after apply, revert raises KeyError.
C2_AnyChangeDetected ==
  (Done("revert") /\ AfterCachedApply /\ Changed # {}) => result.exc = "KeyError"

\* the change left the file with another CRC-32, or removed it
CrcChanged(t) == ~Exists(pre[t.path]) \/ crc32(pre[t.path].bytes) # crc32(t.was.bytes)

\* C2, amended: when a substituted file was removed after apply, or its
\* bytes changed to bytes of another CRC-32, revert raises KeyError.
C2_CrcChangeDetected ==
  (Done("revert") /\ AfterCachedApply /\ \E t \in Changed : CrcChanged(t))
    => result.exc = "KeyError"

C2_Witness ==
  /\ Done("revert") /\ AfterCachedApply
  /\ \E t \in Changed : Exists(pre[t.path]) /\ CrcChanged(t)
  /\ result.exc = "KeyError"

\* C3, as claimed: once the verifier has rejected an entry, revert ends with
\* KeyError, and every tree file keeps its bytes and its timestamps and the
\* archive stays as it was.
C3_RejectionLeavesTreeAndArchive ==
  ~all_hashes_valid =>
    /\ tree = pre
    /\ cache = preCache /\ cache.exists
    /\ pc \in {"r_verify", "idle"}
    /\ pc = "idle" => result = [op |-> "revert", exc |-> "KeyError"]

\* file f is file g but for its access time
SameButAtime(f, g) == [f EXCEPT !.atime = g.atime] = g

\* C3, amended: once the verifier has rejected an entry, revert ends with
\* KeyError without a replacement, every tree file keeps its bytes and its
\* modification time (a read of the verifier may have set its access
\* time), and the archive stays as it was.
C3_RejectionLeavesContentAndArchive ==
  ~all_hashes_valid =>
    /\ \A p \in TreePaths :
         /\ SameButAtime(tree[p], pre[p])
         /\ tree[p].atime # pre[p].atime =>
              \E t \in 0..now : tree[p].atime = <<t, 0>> /\ tree[p].kind = "file"
    /\ cache = preCache /\ cache.exists
    /\ pc \in {"r_verify", "idle"}
    /\ pc = "idle" => result = [op |-> "revert", exc |-> "KeyError"]

C3_Witness ==
  /\ Done("revert") /\ ~all_hashes_valid /\ result.exc = "KeyError"
  /\ cache_index_files # {}

\* C4, as claimed: in the archive of a successful apply, every file reported
\* as substituted has exactly one index line and exactly one original
\* member, and every index line and original member is of such a file.
C4_IndexCompleteness ==
  (Done("apply") /\ result.exc = NoError /\ useCache) =>
    LET lines == IndexEntries(cache)
        files == Range(substituted)
    IN  /\ \A p \in files :
             /\ Cardinality({k \in 1..Len(lines) : EntryPath(lines[k]) = p}) = 1
             /\ Cardinality({k \in OrigMembers(cache) : cache.members[k].rel = p}) = 1
        /\ \A k \in 1..Len(lines) : EntryPath(lines[k]) \in files
        /\ \A k \in OrigMembers(cache) : cache.members[k].rel \in files

\* C5, as claimed: when a path with '|' aborts apply, no file of the tree
\* has been mutated.
C5_NoFileMutated ==
  (Done("apply") /\ result.exc = "ValueError") => tree = pre

\* the lines of the list before the first one with '|'
RECURSIVE LinesBeforeDelimiter(_)
LinesBeforeDelimiter(lines) ==
  IF lines = <<>> \/ (\E j \in 1..Len(Head(lines)) : Head(lines)[j] = 124) THEN {}
  ELSE {Head(lines)} \cup LinesBeforeDelimiter(Tail(lines))

\* C5, amended: apply aborts with ValueError in the step that reaches a path
\* with '|', and that step mutates no file; the files mutated by then are
\* named on the lines before it.
C5_AbortsOnReachingLine ==
  /\ [][(pc = "a_line" /\ todo # <<>> /\ \E j \in 1..Len(Head(todo)) : Head(todo)[j] = 124)
         => (pc' = "idle" /\ result' = [op |-> "apply", exc |-> "ValueError"] /\ tree' = tree)]_vars
  /\ []((Done("apply") /\ result.exc = "ValueError") =>
          \A p \in TreePaths \ LinesBeforeDelimiter(listFile.lines) : tree[p] = pre[p])

C5_Witness ==
  /\ Done("apply") /\ result.exc = "ValueError"
  /\ \E p \in TreePaths : tree[p].bytes # pre[p].bytes

\* C6, as claimed: when the list has a path with '|' and a cache destination
\* is given, apply fails and no archive exists once it has returned.
C6_DelimiterLeavesNoArchive ==
  (Done("apply") /\ useCache /\ PreconditionsHeld /\ ListHasDelimiter)
    => (result.exc # NoError /\ ~cache.exists)

\* C7, as claimed: an apply that fails while it processes the list leaves no
\* archive at the cache destination.
C7_FailureLeavesNoArchive ==
  (Done("apply") /\ useCache /\ result.exc \in {"ValueError", "FileProcessingError"})
    => ~cache.exists

\* the original members of archive c that its index does not reference
Unused(c) == {c.members[k].rel : k \in OrigMembers(c)} \ IndexPaths(c)

\* C8: revert removes the archive exactly when it completes and no original
\* is unused; otherwise the archive is as it was, and a revert that
\* completes has restored the indexed files.
C8_ArchiveRemovedOnCleanRevert ==
  (Done("revert") /\ preCache.exists /\ treeExists) =>
    /\ ~cache.exists <=> (result.exc = NoError /\ Unused(preCache) = {})
    /\ cache.exists => cache = preCache
    /\ result.exc = NoError =>
         \A p \in IndexPaths(preCache) :
           tree[p].bytes = LastMember(preCache.members, ORIG_DIR_NAME, p)

C8_Witness ==
  /\ Done("revert") /\ result.exc = NoError /\ cache.exists
  /\ Unused(preCache) # {} /\ IndexPaths(preCache) # {}

\* C9: an apply called with the tree, the rule file or the list missing, or
\* with a cache path that exists, raises FileNotFoundError / FileExistsError
\* and changes no tree file and nothing of the cache file.
C9_PreconditionsBeforeMutation ==
  (Done("apply") /\ ~PreconditionsHeld) =>
    /\ result.exc = IF treeExists /\ regexFile.exists /\ listFile.exists
                    THEN "FileExistsError" ELSE "FileNotFoundError"
    /\ tree = pre
    /\ cache = preCache

C9_Witness ==
  /\ Done("apply") /\ result.exc = "FileExistsError"
  /\ cache.exists /\ cache = preCache
  /\ \E p \in TreePaths : SubstituteWrites(tree[p], regex_pairs(regexFile.lines))

\* a rule line without '#', or whose pattern has an unclosed '('
MalformedRule(line) ==
  /\ line # <<>>
  /\ \/ \A j \in 1..Len(line) : line[j] # 35
     \/ \E j \in 1..Len(line) : line[j] = 40 /\ \A i \in 1..j : line[i] # 35

\* C10: with a malformed rule file apply raises DomainRegexError, and it has
\* mutated no tree file and created no archive.
C10_MalformedRulesBeforeMutation ==
  (Done("apply") /\ PreconditionsHeld
     /\ \E k \in 1..Len(regexFile.lines) : MalformedRule(regexFile.lines[k])) =>
    /\ result.exc = DomainRegexError
    /\ tree = pre
    /\ cache = preCache
    /\ useCache => ~cache.exists

C10_Witness ==
  /\ Done("apply") /\ result.exc = DomainRegexError /\ useCache
  /\ \E k \in 1..Len(listFile.lines) :
       /\ listFile.lines[k] \in TreePaths
       /\ tree[listFile.lines[k]].kind = "file"

\* the non-empty lines of the rule file that do not begin with '#'
RuleLines == {k \in 1..Len(regexFile.lines) :
                regexFile.lines[k] # <<>> /\ regexFile.lines[k][1] # 35}

\* C11, as claimed: the pattern table of an apply that completed has one
\* pair per non-empty line that does not begin with '#', and a rule file of
\* comment lines only changes the bytes of no file.
C11_CommentLinesYieldNoRule ==
  (Done("apply") /\ result.exc = NoError) =>
    /\ Len(regexPairs) = Cardinality(RuleLines)
    /\ RuleLines = {} => \A p \in TreePaths : tree[p].bytes = pre[p].bytes

\* C12, as claimed: after an apply that wrote its archive and a successful
\* revert of the tree as apply left it, every file apply substituted has
\* the access and modification times it had before apply.
C12_RoundTripTimestamps ==
  (Done("revert") /\ result.exc = NoError /\ AfterCachedApply /\ prev.tampered = {})
    => \A p \in Range(prev.substituted) :
         /\ tree[p].atime = prev.pre[p].atime
         /\ tree[p].mtime = prev.pre[p].mtime

\* the next line of the list names no file of the tree, or a symbolic link
AtSkippedLine ==
  /\ pc = "a_line" /\ todo # <<>>
  /\ \A j \in 1..Len(Head(todo)) : Head(todo)[j] # 124
  /\ Head(todo) \in DOMAIN tree => tree[Head(todo)].kind \in {"absent", "symlink"}

\* C13: the step of apply at a list line that names a missing path or a
\* symbolic link changes no file, writes nothing to the index or the archive
\* and goes on with the next line without an error; an apply that completes
\* has substituted the files of the other lines that have a match, and its
\* archive has no entry for a skipped path.
C13_MissingAndSymlinkSkipped ==
  /\ [][AtSkippedLine =>
          /\ tree' = tree /\ cache' = cache /\ fileindex' = fileindex
          /\ substituted' = substituted
          /\ todo' = Tail(todo) /\ pc' = "a_line" /\ result' = result]_vars
  /\ []((Done("apply") /\ result.exc = NoError) =>
          \A p \in TreePaths :
            IF pre[p].kind \in {"absent", "symlink"}
              THEN /\ tree[p] = pre[p]
                   /\ p \notin Range(substituted)
                   /\ useCache => /\ p \notin IndexPaths(cache)
                                  /\ \A k \in OrigMembers(cache) : cache.members[k].rel # p
              ELSE (/\ p \in Range(listFile.lines)
                    /\ pre[p].kind = "file"
                    /\ SubstituteWrites(pre[p], regexPairs)) => p \in Range(substituted))

C13_Witness ==
  /\ Done("apply") /\ result.exc = NoError /\ useCache
  /\ Len(listFile.lines) = 2
  /\ pre[listFile.lines[1]].kind \in {"absent", "symlink"}
  /\ listFile.lines[2] \in Range(substituted)
  /\ listFile.lines[2] \in IndexPaths(cache)

\* the verifier has scanned the whole index of the archive
IndexScanned == pc = "r_verify" /\ entries = <<>>

\* the text of a line of the index before and after its first '|'
PathField(line) ==
  IF \E j \in 1..Len(line) : line[j] = 124
    THEN SubSeq(line, 1, (CHOOSE j \in 1..Len(line) :
                            line[j] = 124 /\ \A i \in 1..(j - 1) : line[i] # 124) - 1)
    ELSE line
HashField(line) == SubSeq(line, Len(PathField(line)) + 2, Len(line))

\* text h in lower case
Lower(h) == [k \in 1..Len(h) |-> IF h[k] \in 65..90 THEN h[k] + 32 ELSE h[k]]

\* text h is made of hexadecimal digits
HexDigits(h) == \A k \in 1..Len(h) : h[k] \in (48..57) \cup (97..102) \cup (65..70)

\* hexadecimal text h, of at most eight digits, is the number c
HexEquals(h, c) ==
  /\ Len(h) <= 8 /\ HexDigits(h)
  /\ [k \in 1..(8 - Len(h)) |-> 48] \o Lower(h) = Hex08(c)

\* no line before line k of the index names the path of line k
FirstOfPath(lines, k) == \A j \in 1..(k - 1) : PathField(lines[j]) # PathField(lines[k])

\* C14, as claimed: the verifier succeeds exactly when every line of the
\* index has a '|' with a path before it and a hash after it, the path
\* exists in the tree, the CRC-32 of its bytes is the recorded hash, and no
\* path is on two lines.
C14_VerifierIffListed ==
  IndexScanned =>
    (all_hashes_valid <=>
       LET lines == IndexEntries(preCache) IN
       \A k \in 1..Len(lines) :
         /\ \E j \in 1..Len(lines[k]) : lines[k][j] = 124
         /\ PathField(lines[k]) # <<>> /\ HashField(lines[k]) # <<>>
         /\ Exists(pre[PathField(lines[k])])
         /\ HexEquals(HashField(lines[k]), crc32(pre[PathField(lines[k])].bytes))
         /\ FirstOfPath(lines, k))

\* text h is a hash the verifier takes for the number c: eight hexadecimal
\* digits, or 0x and six hexadecimal digits
AcceptedHash(h, c) ==
  /\ Len(h) = 8
  /\ \/ HexEquals(h, c)
     \/ /\ Lower(SubSeq(h, 1, 2)) = <<48, 120>>
        /\ HexEquals(SubSeq(h, 3, 8), c)

\* C14, amended: the verifier succeeds exactly when every line of the
\* index has a '|' with a path before it and a hash of eight characters
\* after it, the path is a file of the tree, the hash is the CRC-32 of its
\* bytes in eight hexadecimal digits or as 0x and six digits, and no path
\* is on two lines.
C14_VerifierIffAccepted ==
  IndexScanned =>
    (all_hashes_valid <=>
       LET lines == IndexEntries(preCache) IN
       \A k \in 1..Len(lines) :
         /\ \E j \in 1..Len(lines[k]) : lines[k][j] = 124
         /\ PathField(lines[k]) # <<>>
         /\ pre[PathField(lines[k])].kind = "file"
         /\ AcceptedHash(HashField(lines[k]), crc32(pre[PathField(lines[k])].bytes))
         /\ FirstOfPath(lines, k))

C14_Witness ==
  /\ IndexScanned /\ all_hashes_valid
  /\ Len(IndexEntries(preCache)) = 2
  /\ cache_index_files = TreePaths

\* C15, as claimed: an index line whose hash field is not eight hexadecimal
\* digits makes the verifier fail.
C15_NonHexHashRejected ==
  (IndexScanned /\ \E k \in 1..Len(IndexEntries(preCache)) :
                     LET h == HashField(IndexEntries(preCache)[k]) IN
                     ~(Len(h) = 8 /\ HexDigits(h)))
    => ~all_hashes_valid

\* line k of the index is one the verifier can accept, duplicates aside
GoodLine(lines, k) ==
  /\ \E j \in 1..Len(lines[k]) : lines[k][j] = 124
  /\ PathField(lines[k]) # <<>>
  /\ pre[PathField(lines[k])].kind = "file"
  /\ AcceptedHash(HashField(lines[k]), crc32(pre[PathField(lines[k])].bytes))

\* C16: the verifier examines the lines of the index one after the other
\* without returning, whatever it found so far; revert raises KeyError only
\* once no line is left, and by then the running set holds the path of
\* every acceptable line, those after a rejected line included.
C16_VerifierScansAllLines ==
  /\ [][(pc = "r_verify" /\ entries # <<>>) =>
          /\ pc' = "r_verify" /\ entries' = Tail(entries) /\ result' = result
          /\ cache_index_files \subseteq cache_index_files']_vars
  /\ [][(pc = "r_verify" /\ pc' # "r_verify") => entries = <<>>]_vars
  /\ [](IndexScanned =>
          LET lines == IndexEntries(preCache) IN
          cache_index_files = {PathField(lines[k]) : k \in {j \in 1..Len(lines) : GoodLine(lines, j)}})

C16_Witness ==
  /\ Done("revert") /\ result.exc = "KeyError" /\ ~all_hashes_valid
  /\ Len(IndexEntries(preCache)) = 2
  /\ ~GoodLine(IndexEntries(preCache), 1)
  /\ cache_index_files = {PathField(IndexEntries(preCache)[2])}

\* C17, as claimed: the index of the archive of a successful apply names
\* no path on two lines.
C17_NoPathTwiceInIndex ==
  (Done("apply") /\ result.exc = NoError /\ useCache) =>
    \A j, k \in 1..Len(IndexEntries(cache)) :
      PathField(IndexEntries(cache)[j]) = PathField(IndexEntries(cache)[k]) => j = k

\* apply is running
InApply == pc \in {"a_regex", "a_open", "a_line", "a_subst", "a_utime", "a_entry"}

\* C18: a step of apply that adds a line to the index or an original to the
\* archive leaves the tree alone and is about a file that already holds its
\* substituted bytes: the line has the CRC-32 of the file's bytes, and the
\* original is the content those bytes were substituted from; at every state
\* of apply the originals in the archive are of files already rewritten.
C18_EntryAfterFileWritten ==
  /\ [][(InApply /\ todo # <<>> /\
           (Len(fileindex') > Len(fileindex) \/ Len(cache'.members) > Len(cache.members))) =>
          LET p == Head(todo) IN
          /\ tree' = tree
          /\ p \in Range(substituted)
          /\ fileindex' = fileindex \o IndexLine(p, crc32(tree[p].bytes))
          /\ Len(cache'.members) = Len(cache.members) + 1
          /\ LET m == cache'.members[Len(cache'.members)] IN
             /\ m.top = ORIG_DIR_NAME /\ m.rel = p
             /\ Substituted(m.data, regexPairs).encoded_content = tree[p].bytes
             /\ Substituted(m.data, regexPairs).total_subs > 0]_vars
  /\ []((InApply /\ pc # "a_regex" /\ pc # "a_open" /\ useCache) =>
          /\ \A k \in OrigMembers(cache) : cache.members[k].rel \in Range(substituted)
          /\ LET lines == SplitLines(Utf8Decode(fileindex)) IN
             \A k \in 1..Len(lines) : PathField(lines[k]) \in Range(substituted)
          /\ \A p \in Range(substituted) :
               tree[p].kind = "file" /\ tree[p].bytes # pre[p].bytes)

C18_Witness ==
  /\ pc = "a_line" /\ useCache /\ todo # <<>>
  /\ OrigMembers(cache) # {}
  /\ fileindex # <<>>

\* C19, as claimed: while apply runs and once it has ended, the cache
\* destination does not exist or holds the complete archive, index included.
C19_ArchiveAtomic ==
  ((InApply \/ Done("apply")) /\ useCache /\ PreconditionsHeld /\ cache.exists) =>
    /\ cache.complete
    /\ \E k \in 1..Len(cache.members) : cache.members[k].top = INDEX_LIST_FILENAME

\* the replacement phase of revert
InReplacement == pc \in {"r_replace", "r_move", "r_utime", "r_unlink"}

\* C20: in the replacement phase of revert every indexed path is a file
\* with its substituted bytes or the original bytes of the archive, and the
\* step that changes its bytes is one rename: the extracted original leaves
\* the extraction directory and is the tree file.
C20_SingleRename ==
  /\ [](InReplacement =>
          \A p \in cache_index_files :
            /\ tree[p].kind = "file"
            /\ \/ tree[p].bytes = pre[p].bytes
               \/ tree[p].bytes = LastMember(preCache.members, ORIG_DIR_NAME, p))
  /\ [][InReplacement =>
          \A p \in TreePaths :
            (tree'[p].bytes # tree[p].bytes \/ tree'[p].kind # tree[p].kind) =>
              /\ pc = "r_move" /\ p = moving /\ p \in cache_index_files
              /\ \E o \in tmp.orig :
                   /\ o.rel = p /\ tree'[p].bytes = o.data /\ tree'[p].kind = "file"
                   /\ tmp'.orig = tmp.orig \ {o}]_vars

C20_Witness ==
  /\ pc = "r_utime" /\ exc = NoError
  /\ tree[moving].bytes # pre[moving].bytes
  /\ remaining # {}

\* the steps of revert inside the with statement of the temporary directory
InExtraction == pc \in {"r_extract", "r_index", "r_verify", "r_replace", "r_move", "r_utime"}

\* C21: the temporary extraction directory exists only while revert is
\* inside its with statement; whichever way revert ends (clean, with unused
\* originals, with a verification failure, with an error while extracting or
\* replacing) the directory is gone.
C21_TempDirRemoved == tmp.exists => InExtraction

C21_Witness ==
  /\ Done("revert") /\ result.exc = "FileNotFoundError"
  /\ cache_index_files # {}
  /\ preCache.exists /\ ~tmp.exists

\* the pattern of a rule line: the text before its first '#'
PatternOf(line) ==
  IF \E j \in 1..Len(line) : line[j] = 35
    THEN SubSeq(line, 1, (CHOOSE j \in 1..Len(line) :
                            line[j] = 35 /\ \A i \in 1..(j-1) : line[i] # 35) - 1)
    ELSE line

\* pattern p (literal text) matches somewhere in s; the empty pattern
\* matches in every s, the empty one included
Occurs(p, s) ==
  \E k \in 1..(Len(s) + 1) :
    k + Len(p) - 1 <= Len(s) /\ \A j \in 1..Len(p) : s[k + j - 1] = p[j]

\* no rule of the rule file matches in a file of these bytes (the patterns
\* are ASCII, so they match in the decoded text where they match in the bytes)
ZeroSubstitutions(bytes) ==
  \A k \in 1..Len(regexFile.lines) :
    regexFile.lines[k] # <<>> => ~Occurs(PatternOf(regexFile.lines[k]), bytes)

\* a file apply leaves alone: it is empty, or no rule matches in it
Untouched(f) == f.kind = "file" /\ (f.bytes = <<>> \/ ZeroSubstitutions(f.bytes))

\* C22: a file that is empty, or in which the rules make no substitution,
\* keeps its bytes through apply, is not reported as substituted, and gets
\* no original-content member and no index line in the archive.
C22_UnmatchedFileUntouched ==
  ((InApply \/ Done("apply")) /\ PreconditionsHeld /\ tampered = {}) =>
    \A p \in TreePaths :
      Untouched(pre[p]) =>
        /\ tree[p].bytes = pre[p].bytes
        /\ p \notin Range(substituted)
        /\ useCache => \A k \in OrigMembers(cache) : cache.members[k].rel # p
        /\ (useCache /\ Done("apply") /\ result.exc = NoError) => p \notin IndexPaths(cache)

C22_Witness ==
  /\ Done("apply") /\ result.exc = NoError /\ useCache
  /\ \E p, q \in Range(listFile.lines) :
       /\ Untouched(pre[p]) /\ pre[p].bytes # <<>>
       /\ Untouched(pre[q]) /\ pre[q].bytes = <<>>
       /\ tree[p].bytes = pre[p].bytes /\ tree[q].bytes = <<>>

\* the replacement of a rule line: the text after its first '#'
ReplacementOf(line) == SubSeq(line, Len(PatternOf(line)) + 2, Len(line))

RECURSIVE InRuleOrder(_, _, _)
\* <<text, count>> after the first n rules: rule n replaces every match in
\* the text the first n-1 rules left, and its count is added to theirs
InRuleOrder(rules, n, text) ==
  IF n = 0 THEN <<text, 0>>
  ELSE LET before == InRuleOrder(rules, n - 1, text)
           res == Subn(PatternOf(rules[n]), ReplacementOf(rules[n]), before[1])
       IN  <<res[1], before[2] + res[2]>>

\* C23: the transformer's step on a file that has content applies the rules
\* in the order of the rule file, each to the text the rule before it left;
\* the file is rewritten, with that text, exactly when the counts of the
\* rules add up to more than zero.
C23_RulesInOrder ==
  [][(pc = "a_subst" /\ tree[Head(todo)].kind = "file" /\ tree[Head(todo)].bytes # <<>>) =>
       LET path == Head(todo)
           rules == FilterLen(regexFile.lines)
           expected == InRuleOrder(rules, Len(rules), _decode_file_content(tree[path].bytes))
       IN  IF expected[2] > 0
             THEN /\ tree'[path].bytes = Utf8Encode(expected[1])
                  /\ tree'[path].mtime = <<now, 0>>
                  /\ crc32_hash' = crc32(Utf8Encode(expected[1]))
                  /\ orig_content' = <<tree[path].bytes>>
             ELSE /\ tree'[path].bytes = tree[path].bytes
                  /\ tree'[path].mtime = tree[path].mtime
                  /\ crc32_hash' = None]_vars

C23_Witness ==
  /\ pc = "a_utime" /\ exc = NoError
  /\ Len(regexPairs) = 2
  /\ orig_content = << <<97>> >>
  /\ tree[Head(todo)].bytes = <<99>>

\* time t moved by n times TIMESTAMP_DELTA, which is one second
Shifted(t, n) == <<t[1] + n, t[2]>>

\* the list lines that name path p
Visits(p) == Cardinality({k \in 1..Len(listFile.lines) : listFile.lines[k] = p})

\* C24: when the transform of a file starts, the times to set are its
\* access and modification times plus TIMESTAMP_DELTA; they are not touched
\* while the transform runs, and the step after the transform sets them on
\* the file, whatever times the read and the rewrite left.  So after an
\* apply that completed, a file apply visited has the times it had before
\* apply plus one delta per visit.
C24_TimestampsShiftedByDelta ==
  /\ [](pc = "a_subst" =>
          new_timestamp = <<Shifted(tree[Head(todo)].atime, 1),
                            Shifted(tree[Head(todo)].mtime, 1)>>)
  /\ [][pc = "a_subst" => new_timestamp' = new_timestamp]_vars
  /\ [][pc = "a_utime" =>
          /\ tree'[Head(todo)].atime = new_timestamp[1]
          /\ tree'[Head(todo)].mtime = new_timestamp[2]]_vars
  /\ []((Done("apply") /\ result.exc = NoError /\ tampered = {}) =>
          \A p \in Range(listFile.lines) :
            pre[p].kind = "file" =>
              /\ tree[p].atime = Shifted(pre[p].atime, Visits(p))
              /\ tree[p].mtime = Shifted(pre[p].mtime, Visits(p)))

C24_Witness ==
  /\ Done("apply") /\ result.exc = NoError
  /\ \E p \in Range(substituted) :
       /\ tree[p].bytes # pre[p].bytes
       /\ pre[p].mtime = <<10, 7>> /\ tree[p].mtime = <<11, 7>>
       /\ pre[p].atime = <<20, 5>> /\ tree[p].atime = <<21, 5>>

\* C25: the step that leaves the with statement of _update_timestamp with
\* an exception pending (the transform of apply raised, or the replacement
\* of revert did) still sets the file's times to the times it had when the
\* statement was entered, shifted by TIMESTAMP_DELTA (forward in apply, back
\* in revert), and then the operation ends with that exception.
C25_TimestampsSetOnError ==
  /\ [][(pc = "a_utime" /\ exc # NoError) =>
          /\ tree'[Head(todo)].atime = Shifted(pre[Head(todo)].atime, 1)
          /\ tree'[Head(todo)].mtime = Shifted(pre[Head(todo)].mtime, 1)
          /\ pc' = "idle" /\ result' = [op |-> "apply", exc |-> exc]]_vars
  /\ [][(pc = "r_utime" /\ exc # NoError) =>
          /\ tree'[moving].atime = Shifted(tree[moving].atime, -1)
          /\ tree'[moving].mtime = Shifted(pre[moving].mtime, -1)
          /\ pc' = "idle" /\ result' = [op |-> "revert", exc |-> exc]]_vars

C25_Witness ==
  /\ Done("revert") /\ result.exc = "FileNotFoundError"
  /\ moving \in cache_index_files
  /\ tree[moving].bytes = pre[moving].bytes
  /\ tree[moving].mtime = Shifted(pre[moving].mtime, -1)
  /\ pre[moving].mtime[1] > 0

\* apply has completed on the tree an earlier apply that completed left
SecondApply ==
  /\ Done("apply") /\ result.exc = NoError
  /\ prev.op = "apply" /\ prev.exc = NoError
  /\ prev.tampered = {} /\ tampered = {}

\* the second apply leaves path p alone: its bytes stay, it is not reported
\* as substituted, and the archive has no original and no index line for it
LeftAlone(p) ==
  /\ tree[p].bytes = pre[p].bytes
  /\ p \notin Range(substituted)
  /\ useCache => /\ \A k \in OrigMembers(cache) : cache.members[k].rel # p
                 /\ p \notin IndexPaths(cache)

\* C26, as claimed: a second apply leaves every file the first apply
\* substituted unchanged and writes no cache entry for it.
C26_SecondApplyWritesNothing ==
  SecondApply => \A p \in Range(prev.substituted) : LeftAlone(p)

\* C26, amended: a second apply leaves a file the first apply substituted
\* unchanged, and writes no cache entry for it, when no rule pattern matches
\* in the substituted content.
C26_SecondApplyIdempotent ==
  SecondApply =>
    \A p \in Range(prev.substituted) : ZeroSubstitutions(pre[p].bytes) => LeftAlone(p)

C26_Witness ==
  /\ SecondApply /\ useCache
  /\ \E p \in Range(prev.substituted) :
       /\ ZeroSubstitutions(pre[p].bytes)
       /\ pre[p].bytes # prev.pre[p].bytes
       /\ LeftAlone(p)
  /\ IndexPaths(cache) = {}

\* a step of revert
InRevert == InExtraction \/ pc = "r_unlink" \/ (pc = "idle" /\ result'.op = "revert")

\* C27: a revert that ends with an error leaves the archive as it found it;
\* the only step of revert that changes the archive is its last one, which
\* ends revert without an error.
C27_ErrorKeepsArchive ==
  /\ []((Done("revert") /\ result.exc # NoError) => cache = preCache)
  /\ [][(InRevert /\ cache' # cache) =>
          /\ pc = "r_unlink" /\ pc' = "idle"
          /\ result' = [op |-> "revert", exc |-> NoError]
          /\ cache' = NoCache]_vars

C27_Witness ==
  /\ Done("revert") /\ result.exc = "KeyError"
  /\ cache.exists /\ cache = preCache
  /\ cache_index_files # {}

\* C28: while apply runs and when it has ended, however it ends, a tree path
\* that no list line names is as it was before apply; while revert runs and
\* when it has ended, a tree path that is not in the verified index has the
\* bytes it had before revert.  A step that changes the bytes of a file is
\* apply's at the list line of that file, or revert's on a path of the
\* verified index.
C28_OtherFilesKeepBytes ==
  /\ []((InApply \/ Done("apply")) /\ tampered = {} =>
          \A p \in TreePaths \ Range(listFile.lines) : tree[p] = pre[p])
  /\ []((InExtraction \/ pc = "r_unlink" \/ Done("revert")) =>
          \A p \in TreePaths \ cache_index_files :
            tree[p].bytes = pre[p].bytes /\ tree[p].kind = pre[p].kind)
  /\ [][\A p \in TreePaths :
          (pc # "idle" /\ tree'[p].bytes # tree[p].bytes) =>
            \/ pc = "a_subst" /\ p = Head(todo)
            \/ pc = "r_move" /\ p = moving /\ p \in cache_index_files]_vars

C28_Witness ==
  /\ Done("revert") /\ result.exc = NoError
  /\ \E p \in cache_index_files : tree[p].bytes # pre[p].bytes
  /\ \E q \in TreePaths \ cache_index_files :
       /\ q \in Unused(preCache)
       /\ tree[q].kind = "file" /\ tree[q].bytes # LastMember(preCache.members, ORIG_DIR_NAME, q)

\* revert has completed on the tree and the archive a completed apply left
RoundTrip ==
  /\ Done("revert") /\ result.exc = NoError
  /\ AfterCachedApply /\ prev.tampered = {}

\* C29, as claimed: a listed file in which no rule matches has, after apply,
\* the times it had before apply plus TIMESTAMP_DELTA; after apply and a
\* revert that completed it has the bytes it had before apply and still those
\* times.
C29_UnmatchedKeepsDelta ==
  /\ (Done("apply") /\ result.exc = NoError /\ tampered = {}) =>
       \A p \in Range(listFile.lines) :
         Untouched(pre[p]) =>
           /\ tree[p].atime = Shifted(pre[p].atime, 1)
           /\ tree[p].mtime = Shifted(pre[p].mtime, 1)
  /\ RoundTrip =>
       \A p \in Range(listFile.lines) :
         Untouched(prev.pre[p]) =>
           /\ tree[p].bytes = prev.pre[p].bytes
           /\ tree[p].atime = Shifted(prev.pre[p].atime, 1)
           /\ tree[p].mtime = Shifted(prev.pre[p].mtime, 1)

\* the positions of the log at which the command was run, and those at
\* which the call slept
RunsAt == {k \in 1..Len(log) : log[k].ev = "run"}
SleepsAt == {k \in 1..Len(log) : log[k].ev = "sleep"}

\* the log of a call: failed runs with one sleep of delay seconds between
\* two runs, and nothing after a run that succeeded
RetryLogShape ==
  /\ Cardinality(RunsAt) <= max_retries
  /\ \A k \in 1..Len(log) :
       /\ (k % 2 = 1) = (k \in RunsAt)
       /\ k \in SleepsAt => log[k].arg = delay
       /\ (k \in RunsAt /\ k < Len(log)) => log[k].arg # 0
  /\ (Len(log) > 0 /\ Len(log) \in SleepsAt) => (retry_pc = "for" /\ attempt < max_retries)

\* the call has ended: it returned the result of the run that succeeded,
\* the last one of the log, or raised the failure of the last of
\* max_retries runs, the last entry of the log
RetryEnded ==
  /\ Len(log) > 0 /\ Len(log) \in RunsAt
  /\ \/ /\ run_result.kind = "return"
        /\ log[Len(log)].arg = 0
     \/ /\ run_result.kind = "raise"
        /\ Cardinality(RunsAt) = max_retries
        /\ log[Len(log)].arg # 0
        /\ run_result.returncode = log[Len(log)].arg

\* C30: a call with max_retries >= 1 comes to an end; it runs the command at
\* most max_retries times, returns at the first run that succeeds without
\* running or sleeping again, raises the failure of the last run when
\* max_retries runs have failed, and sleeps delay seconds only between two
\* runs.
C30_RetryTerminates ==
  /\ []((retry_pc # "idle" /\ max_retries >= 1) =>
          /\ RetryLogShape
          /\ retry_pc = "done" => RetryEnded)
  /\ [][retry_pc = "done" => UNCHANGED <<log, run_result>>]_vars
  /\ (retry_pc # "idle" /\ max_retries >= 1) ~> (retry_pc = "done")

C30_Witness ==
  /\ retry_pc = "done" /\ run_result.kind = "raise"
  /\ max_retries = 3 /\ delay = 30
  /\ Cardinality(RunsAt) = 3 /\ Cardinality(SleepsAt) = 2
  /\ run_result.returncode = 2 /\ log[1].arg = 1

=============================================================================
